---------------------------- MODULE Spec2Model ----------------------------
(***************************************************************************)
(* A model of the LDI projection engine (src/src/ldi).                     *)
(*                                                                         *)
(* Numbers.  Money is an integer number of currency units.  A monthly      *)
(* growth factor (1 + monthly rate) is an integer number of RateDen-ths,   *)
(* so a factor of 105 is +5% a month.  A product of an amount and a        *)
(* factor is rounded down to a whole unit, as a float product is rounded   *)
(* to the nearest representable value.                                     *)
(*                                                                         *)
(* Time.  A date is a record [m |-> month number, d |-> day of month];     *)
(* months are numbered absolutely, `today' is the month in which the run   *)
(* executes (pd.Timestamp.today()), and a timeline is a sequence of month  *)
(* starts.                                                                 *)
(***************************************************************************)
EXTENDS Integers, Sequences, FiniteSets, TLC

\* ------------------------------------------------------------------ bounds
\* Longest frame of a bucket projected on its own (SpecBucket).
MaxLen == 3

\* The denominator of a monthly growth factor.
RateDen == 100

VARIABLES
    \* a bucket projected on its own (portfolio.py)
    bucket, t, loop, frame,
    \* one construction of LDIModel (model.py)
    pc, today, scenario, assumptions, current_balance, liabilities_config,
    contributions_config, end_date, liabilities, present_value, contributions,
    required_buckets, surplus_bucket, funded_status, current_allocations,
    allocation_strategy, error,
    \* one call of a solver (runner.py)
    solver, spc, idx, lower, upper, middle, surplus_at_maturity, returned, rerun,
    \* one call of GlidePath.get_allocation (allocator.py)
    inputs, allocation,
    \* the results of successive model runs on one set of inputs (model.py)
    runs

bucketVars == <<bucket, t, loop, frame>>

modelVars == <<pc, today, scenario, assumptions, current_balance, liabilities_config, contributions_config, end_date, liabilities, present_value, contributions, required_buckets, surplus_bucket, funded_status, current_allocations, allocation_strategy, error>>

solverVars == <<solver, spc, idx, lower, upper, middle, surplus_at_maturity, returned, rerun>>

allocVars == <<inputs, allocation>>

runVars == <<runs>>

vars == <<bucketVars, modelVars, solverVars, allocVars, runVars>>

\* The value of a variable its specification does not use.
None == "None"

\* ----------------------------------------------------------------- helpers
Max(a, b) == IF a >= b THEN a ELSE b

Min(a, b) == IF a <= b THEN a ELSE b

Abs(a) == IF a >= 0 THEN a ELSE 0 - a

\* The element of a one-element set.  {F(x) : x \in {e}} evaluates e once,
\* where a LET definition is evaluated again at each of its uses.
Only(S) == CHOOSE x \in S : TRUE

RECURSIVE SumSeq(_)
SumSeq(s) == IF s = <<>> THEN 0 ELSE Head(s) + SumSeq(Tail(s))

\* amount * factor, the factor in RateDen-ths
Grow(a, g) == (a * g) \div RateDen

\* ------------------------------------------------- portfolio.py: BaseBucket
\* The state of the loop of _project_balances_and_surpluses before its first
\* iteration: the running assets_today and the two result lists.
LoopStart(b) ==
    [assets_today |-> b.amount, balances |-> <<>>, surpluses |-> <<>>]

\* The surplus peeled in one iteration (lines 148-152).
Peel_SignFlipped(allow_surplus, assets, liability) ==
    IF allow_surplus THEN Max(0, liability - assets) ELSE 0

Peel(allow_surplus, assets, liability) ==
    IF allow_surplus THEN Max(0, assets - liability) ELSE 0

\* The roll forward to the next period (lines 158-160).
RollForward_ContributionFirst(assets, r, contribution) == Grow(assets + contribution, r)

RollForward(assets, r, contribution) == Grow(assets, r) + contribution

\* Iteration t (1-based here, 0-based in the code) of the loop.
LoopStep_CreditBeforeRecord(b, st, i) ==
    LET liability == b.pv_remaining[i]
        credited  == st.assets_today + b.contributions_ts[i]
        surplus   == Peel(b.allow_surplus, credited, liability)
        kept      == credited - surplus
    IN  [assets_today |-> Grow(kept, b.expected_return[i]),
         balances     |-> Append(st.balances, kept),
         surpluses    |-> Append(st.surpluses, surplus)]

LoopStep(b, st, i) ==
    LET liability == b.pv_remaining[i]
        surplus   == Peel(b.allow_surplus, st.assets_today, liability)
        kept      == st.assets_today - surplus
    IN  [assets_today |-> RollForward(kept, b.expected_return[i],
                                      b.contributions_ts[i]),
         balances     |-> Append(st.balances, kept),
         surpluses    |-> Append(st.surpluses, surplus)]

RECURSIVE LoopFrom(_, _, _)
LoopFrom(b, st, i) ==
    IF i > Len(b.pv_remaining) THEN st
    ELSE Only({ LoopFrom(b, next, i + 1) : next \in {LoopStep(b, st, i)} })

\* _project_balances_and_surpluses: (balances, surpluses) of the whole frame.
ProjectBalancesAndSurpluses(b) == LoopFrom(b, LoopStart(b), 1)

\* RequiredBucket.__init__, line 254: the shortfall column.
Shortfall(pv, balance) == Max(0, pv - balance)

\* The frame of a bucket whose projection has not run yet.
NoFrame == [built |-> FALSE]

\* The frame a bucket holds once BaseBucket._build (and, for a required
\* bucket, RequiredBucket.__init__) has added the projection's columns.
FrameOf(b, p) ==
    [built            |-> TRUE,
     kind             |-> b.kind,
     date             |-> b.date,
     horizon          |-> b.horizon,
     pv_remaining     |-> b.pv_remaining,
     expected_return  |-> b.expected_return,
     contributions_ts |-> b.contributions_ts,
     asset_balance    |-> p.balances,
     surplus          |-> p.surpluses,
     shortfall        |-> [i \in 1..Len(b.pv_remaining) |->
                              Shortfall(b.pv_remaining[i], p.balances[i])]]

ProjectFrame(b) == Only({ FrameOf(b, p) : p \in {ProjectBalancesAndSurpluses(b)} })

BuildFrame(input) == Only({ ProjectFrame(b) : b \in {input} })

\* --------------------------------------------------- a bucket on its own
\* Inputs of SpecBucket: any initial amount, any frame of at most MaxLen
\* months, any contribution series (withdrawals included).
AmountSet == {0, 300}

PvSet == {100, 200}

ReturnSet == {RateDen, RateDen + 10}

ContribSet == {0 - 50, 0, 150}

\* RequiredBucket.__init__ passes allow_surplus=True and a liability's frame;
\* SurplusBucket.__init__ passes allow_surplus=False and pv_remaining = 0.
BucketInputs(n) ==
    { [kind |-> "required", amount |-> a, allow_surplus |-> TRUE,
       date |-> [i \in 1..n |-> i], horizon |-> [i \in 1..n |-> n - i],
       pv_remaining |-> pv, expected_return |-> r, contributions_ts |-> c]
        : a \in AmountSet, pv \in [1..n -> PvSet],
          r \in [1..n -> ReturnSet], c \in [1..n -> ContribSet] }
    \cup
    { [kind |-> "surplus", amount |-> a, allow_surplus |-> FALSE,
       date |-> [i \in 1..n |-> i], horizon |-> [i \in 1..n |-> n - i],
       pv_remaining |-> [i \in 1..n |-> 0], expected_return |-> r,
       contributions_ts |-> c]
        : a \in AmountSet, r \in [1..n -> ReturnSet], c \in [1..n -> ContribSet] }

ModelIdle ==
    /\ pc = None /\ today = None /\ scenario = None /\ assumptions = None
    /\ current_balance = None /\ liabilities_config = None
    /\ contributions_config = None /\ end_date = None /\ liabilities = None
    /\ present_value = None /\ contributions = None /\ required_buckets = None
    /\ surplus_bucket = None /\ funded_status = None /\ error = None
    /\ current_allocations = None /\ allocation_strategy = None

SolverIdle ==
    /\ solver = None /\ spc = None /\ idx = None /\ lower = None /\ upper = None
    /\ middle = None /\ surplus_at_maturity = None /\ returned = None
    /\ rerun = None

AllocIdle == inputs = None /\ allocation = None

BucketIdle == bucket = None /\ t = None /\ loop = None /\ frame = None

RunsIdle == runs = None

InitBucket ==
    /\ \E n \in 1..MaxLen : bucket \in BucketInputs(n)
    /\ t = 1
    /\ loop = LoopStart(bucket)
    /\ frame = NoFrame
    /\ ModelIdle /\ SolverIdle /\ AllocIdle /\ RunsIdle

\* One iteration of the loop of _project_balances_and_surpluses.
ProjectionStep ==
    /\ ~frame.built
    /\ t <= Len(bucket.pv_remaining)
    /\ loop' = LoopStep(bucket, loop, t)
    /\ t' = t + 1
    /\ UNCHANGED <<bucket, frame, modelVars, solverVars, allocVars, runVars>>

\* The loop is over: _build stores the two columns in the frame.
ProjectionReturn ==
    /\ ~frame.built
    /\ t > Len(bucket.pv_remaining)
    /\ frame' = FrameOf(bucket, loop)
    /\ UNCHANGED <<bucket, t, loop, modelVars, solverVars, allocVars, runVars>>

NextBucket == ProjectionStep \/ ProjectionReturn

SpecBucket == InitBucket /\ [][NextBucket]_vars

\* ------------------------------------------------ allocator.py: GlidePath
\* Weights are exact fractions.  A funding ratio is a number of hundredths
\* (kind "num"), +infinity ("inf"), not-a-number ("nan") or absent ("none");
\* a horizon is a number of months or +infinity.
FundingHedgeWeight == 4

TimeHedgeWeight == 6

\* 12 * 15: the length of the glide in months.
GlideMonths == 180

\* .7 and 1 - .7, in hundredths: where the funding hedge starts and its span.
FundingFloor == 70

FundingSpan == 30

\* clamp(n, min_n, max_n), line 3.
Clamp_NoUpperBound(n, min_n, max_n) == Max(min_n, n)

Clamp(n, min_n, max_n) == Min(max_n, Max(min_n, n))

\* funding_hedge in FundingSpan-ths (line 28).  max(0, nan) is 0 in Python.
FundingHedge(fr) ==
    CASE fr.kind = "none" -> 0
      [] fr.kind = "nan"  -> 0
      [] fr.kind = "inf"  -> FundingSpan
      [] OTHER            -> Clamp(fr.pct - FundingFloor, 0, FundingSpan)

\* time_hedge in GlideMonths-ths (line 29).
TimeHedge(h) ==
    IF h.inf THEN 0 ELSE Clamp(GlideMonths - h.months, 0, GlideMonths)

\* The denominator of base_hedge (tenths of GlideMonths-ths; FundingSpan
\* divides GlideMonths), and of a weight.
HedgeDen == 10 * GlideMonths

AllocDen == 10 * HedgeDen

\* base_hedge in HedgeDen-ths (line 31).
BaseHedge(in) ==
    FundingHedgeWeight * FundingHedge(in.funding_ratio) * (GlideMonths \div FundingSpan)
        + TimeHedgeWeight * TimeHedge(in.horizon_months)

\* GlidePath.get_allocation (lines 23-38): the weights in AllocDen-ths.
GetAllocation(in) ==
    LET base_hedge == BaseHedge(in)
    IN  [us_equity_total_market   |-> 7 * (HedgeDen - base_hedge),
         intl_equity_developed    |-> 3 * (HedgeDen - base_hedge),
         us_nominal_treasury_long |-> 8 * base_hedge,
         us_tips_long             |-> 2 * base_hedge]

Assets == {"us_equity_total_market", "intl_equity_developed", "us_nominal_treasury_long", "us_tips_long"}

\* Inputs of SpecAlloc.
MaxHorizon == 200

FundingPcts == {0 - 50, 0, 50, 70, 71, 85, 99, 100, 101, 250}

HorizonInputs ==
    {[inf |-> FALSE, months |-> m] : m \in 0..MaxHorizon} \cup {[inf |-> TRUE, months |-> 0]}

FundingInputs ==
    {[kind |-> "num", pct |-> p] : p \in FundingPcts}
        \cup {[kind |-> k, pct |-> 0] : k \in {"none", "inf", "nan"}}

NoAllocation == [called |-> FALSE]

InitAlloc ==
    /\ inputs \in {[horizon_months |-> h, funding_ratio |-> f] : h \in HorizonInputs, f \in FundingInputs}
    /\ allocation = NoAllocation
    /\ BucketIdle /\ ModelIdle /\ SolverIdle /\ RunsIdle

\* One call of GlidePath.get_allocation.
CallGetAllocation ==
    /\ ~allocation.called
    /\ allocation' = [called |-> TRUE, weights |-> GetAllocation(inputs)]
    /\ UNCHANGED <<inputs, bucketVars, modelVars, solverVars, runVars>>

NextAlloc == CallGetAllocation

SpecAlloc == InitAlloc /\ [][NextAlloc]_vars

\* ------------------------------------------------------------------ dates
\* relativedelta(years=i): a year is twelve months.
MonthsPerYear == 12

Date(m, d) == [m |-> m, d |-> d]

\* The order of two dates.
DateLeq(a, b) == a.m < b.m \/ (a.m = b.m /\ a.d <= b.d)

\* The first day of month m.
MonthStart(m) == Date(m, 1)

\* The month of the year of month number m (month 1 is a January).
MonthOfYear(m) == ((m - 1) % MonthsPerYear) + 1

\* pd.date_range(start=valuation_date + MonthBegin(1), end=end, freq="MS"):
\* the month starts after the month of the run, up to the date `end'.
Timeline(tdy, end) == [i \in 1..Max(0, end.m - tdy) |-> tdy + i]

\* ------------------------------------------------- assumptions.py, rates
\* Assumptions.from_dict (lines 61-81): the three keys it reads.
AssumptionsMissingKey(data) ==
    ~data.has_inflation_cpi \/ ~data.has_discount_rate \/ ~data.has_assets

\* (1 + infl_m) / (1 + disc_m), Liability._build line 30, in RateDen-ths.
RealDiscount_Inverted(asm) == (asm.discount_rate * RateDen) \div asm.inflation_cpi

RealDiscount(asm) == (asm.inflation_cpi * RateDen) \div asm.discount_rate

\* (1 + equity_m) / (1 + infl_m) and (1 + bond_m) / (1 + infl_m),
\* BaseBucket._build lines 124-125, in RateDen-ths.
RealEquity(asm) == (asm.equity * RateDen) \div asm.inflation_cpi

RealBond(asm) == (asm.fixed_income * RateDen) \div asm.inflation_cpi

\* amount * factor ** n, rounded month by month.
RECURSIVE Compound(_, _, _)
Compound(a, g, n) == IF n <= 0 THEN a ELSE Compound(Grow(a, g), g, n - 1)

\* --------------------------------------------------- portfolio.py: Liability
\* Liability._build (lines 26-43): the frame (date, horizon, pv_remaining).
BuildLiability(amount, tdy, maturity, asm) ==
    LET dates == Timeline(tdy, maturity)
    IN  [amount        |-> amount,
         maturity_date |-> maturity,
         date          |-> dates,
         horizon       |-> [i \in DOMAIN dates |-> maturity.m - dates[i]],
         pv_remaining  |-> [i \in DOMAIN dates |->
                               Compound(amount, RealDiscount(asm), maturity.m - dates[i])]]

\* Liability.present_value (line 49); .iloc[0] of an empty frame raises.
PresentValue(l) == l.pv_remaining[1]

\* ------------------------------------- the allocation strategy of a bucket
\* BaseBucket._build (lines 127-128) asks the strategy for equity_allocation
\* and fixed_income_allocation of a horizon; EquityOnly holds equity alone and
\* GlidePath splits as get_allocation does when no funding ratio is known.
EquityAllocation(strategy, h) ==
    IF strategy = "EquityOnly" THEN AllocDen
    ELSE LET w == GetAllocation([horizon_months |-> [inf |-> FALSE, months |-> h],
                                 funding_ratio |-> [kind |-> "none", pct |-> 0]])
         IN  w["us_equity_total_market"] + w["intl_equity_developed"]

FixedIncomeAllocation(strategy, h) == AllocDen - EquityAllocation(strategy, h)

\* 1 + expected_return of a row (line 129), in RateDen-ths.
ExpectedReturn(strategy, h, asm) ==
    (EquityAllocation(strategy, h) * RealEquity(asm)
        + FixedIncomeAllocation(strategy, h) * RealBond(asm)) \div AllocDen

\* ------------------------------------ portfolio.py: contribution alignment
\* A series is a record [index |-> months, values |-> amounts].
SeriesAt(ts, m) ==
    LET i == CHOOSE j \in DOMAIN ts.index : ts.index[j] = m IN ts.values[i]

SeriesHas(ts, m) == \E j \in DOMAIN ts.index : ts.index[j] = m

\* BaseBucket._normalize_contributions (lines 85-117): a scalar is broadcast,
\* a series is reindexed by the bucket's months; a missing month raises.
NormalizeFails(dates, c) ==
    ~c.scalar /\ \E i \in DOMAIN dates : ~SeriesHas(c.series, dates[i])

NormalizeContributions(dates, c) ==
    [i \in DOMAIN dates |-> IF c.scalar THEN c.value ELSE SeriesAt(c.series, dates[i])]

Scalar(v) == [scalar |-> TRUE, value |-> v]

Series(ts) == [scalar |-> FALSE, series |-> ts]

\* RequiredBucket.__init__ (lines 227-254) on a liability's frame.
RequiredBucketInput(amount, l, strategy, asm, c) ==
    [kind |-> "required", amount |-> amount, allow_surplus |-> TRUE,
     date |-> l.date, horizon |-> l.horizon, pv_remaining |-> l.pv_remaining,
     expected_return |-> [i \in DOMAIN l.date |-> ExpectedReturn(strategy, l.horizon[i], asm)],
     contributions_ts |-> NormalizeContributions(l.date, c)]

\* SurplusBucket.__init__ (lines 185-223) over the timeline to end_date.
SurplusBucketInput(amount, tdy, end, asm, c) ==
    LET dates == Timeline(tdy, end)
        n     == Len(dates)
    IN  [kind |-> "surplus", amount |-> amount, allow_surplus |-> FALSE,
         date |-> dates, horizon |-> [i \in 1..n |-> n - i],
         pv_remaining |-> [i \in 1..n |-> 0],
         expected_return |-> [i \in 1..n |-> ExpectedReturn("EquityOnly", n - i, asm)],
         contributions_ts |-> NormalizeContributions(dates, c)]

\* ------------------------------------------------------ model.py: LDIModel
\* An absent value (Python's None) is the empty sequence, a present one a
\* sequence of one element.  An operation that may raise returns a record
\* whose error field names the exception, "" when it returns normally.
NoError == ""

\* The exception that left __init__: its kind and the method that raised it.
NotRaised == [kind |-> NoError, in |-> ""]

\* _generate_liabilities, lines 59-64.
DurationYears(c) == IF c.type = "recurring" THEN c.duration_years ELSE 1

\* _generate_liabilities, lines 66-74: the liabilities of one config.
RECURSIVE LiabilitiesOfConfig(_, _, _, _)
LiabilitiesOfConfig(c, i, tdy, asm) ==
    IF i >= DurationYears(c) THEN <<>>
    ELSE <<BuildLiability(c.amount_today, tdy,
                          Date(c.start_date.m + MonthsPerYear * i, c.start_date.d), asm)>>
         \o LiabilitiesOfConfig(c, i + 1, tdy, asm)

RECURSIVE LiabilitiesOf(_, _, _)
LiabilitiesOf(configs, tdy, asm) ==
    IF configs = <<>> THEN <<>>
    ELSE LiabilitiesOfConfig(Head(configs), 0, tdy, asm) \o LiabilitiesOf(Tail(configs), tdy, asm)

\* _generate_liabilities (lines 52-77).  present_value() of a liability whose
\* maturity is not after the month of the run reads row 0 of an empty frame.
SumPresentValues(ls) ==
    IF \E i \in DOMAIN ls : Len(ls[i].date) = 0
    THEN [error |-> "IndexError", liabilities |-> ls, present_value |-> 0]
    ELSE [error |-> NoError, liabilities |-> ls,
          present_value |-> SumSeq([i \in DOMAIN ls |-> PresentValue(ls[i])])]

GenerateLiabilities(configs, tdy, asm) ==
    Only({ SumPresentValues(ls) : ls \in {LiabilitiesOf(configs, tdy, asm)} })

\* _calculate_end_date (lines 78-81).
CalculateEndDate(end, ls) ==
    IF end = <<>> /\ Len(ls) > 0
    THEN <<(CHOOSE d \in {ls[i].maturity_date : i \in DOMAIN ls} :
               \A i \in DOMAIN ls : DateLeq(ls[i].maturity_date, d))>>
    ELSE end

\* ts.loc[mask] += amount, the mask as the set of the months it selects
AddWhere(ts, mask, amount) ==
    [ts EXCEPT !.values = [i \in DOMAIN ts.index |->
                              IF ts.index[i] \in mask THEN ts.values[i] + amount
                              ELSE ts.values[i]]]

\* "date not in ts.index" (line 121): the index holds month starts only.
InIndex(ts, date) == date.d = 1 /\ SeriesHas(ts, date.m)

\* _generate_contributions, lines 92-126: one contribution config.
ApplyContribution(ts, c) ==
    IF c.type = "recurring" THEN
        IF Len(ts.index) = 0 THEN [error |-> "IndexError", ts |-> ts]
        ELSE LET start == IF c.has_start_date THEN c.start_date ELSE MonthStart(ts.index[1])
                 end   == IF c.has_end_date THEN c.end_date
                          ELSE MonthStart(ts.index[Len(ts.index)])
                 months == {ts.index[i] : i \in DOMAIN ts.index}
                 in_range == {m \in months : DateLeq(start, MonthStart(m))
                                                /\ DateLeq(MonthStart(m), end)}
             IN  IF c.frequency = "monthly"
                 THEN [error |-> NoError, ts |-> AddWhere(ts, in_range, c.amount)]
                 ELSE IF c.frequency = "annual"
                 THEN [error |-> NoError,
                       ts |-> AddWhere(ts, {m \in in_range : MonthOfYear(m) = c.month}, c.amount)]
                 ELSE [error |-> "ValueError", ts |-> ts]
    ELSE IF c.type = "one_time" THEN
        IF ~InIndex(ts, c.date) THEN [error |-> "ValueError", ts |-> ts]
        ELSE [error |-> NoError, ts |-> AddWhere(ts, {c.date.m}, c.amount)]
    ELSE [error |-> "ValueError", ts |-> ts]

RECURSIVE ApplyContributions(_, _)
ApplyContributions(ts, configs) ==
    IF configs = <<>> THEN [error |-> NoError, ts |-> ts]
    ELSE LET r == ApplyContribution(ts, Head(configs))
         IN  IF r.error # NoError THEN r ELSE ApplyContributions(r.ts, Tail(configs))

NoSeries == [index |-> <<>>, values |-> <<>>]

\* _generate_contributions (lines 83-128).  pd.date_range without an end
\* raises ValueError.
GenerateContributions(tdy, end, configs) ==
    IF end = <<>> THEN [error |-> "ValueError", ts |-> NoSeries]
    ELSE LET date_index == Timeline(tdy, end[1])
         IN  ApplyContributions([index |-> date_index,
                                 values |-> [i \in DOMAIN date_index |-> 0]], configs)

\* _generate_required_buckets, line 137: the initial amount of a bucket.
InitialAmount(required_capital, pv, total) == (required_capital * pv) \div total

\* _generate_required_buckets (lines 130-147).
RequiredBucketsWith(required_capital, total, ls, strategy, asm, per_bucket) ==
    IF \E k \in DOMAIN ls : NormalizeFails(ls[k].date, per_bucket)
    THEN [error |-> "ValueError", buckets |-> <<>>]
    ELSE [error |-> NoError,
          buckets |-> [k \in DOMAIN ls |->
              BuildFrame(RequiredBucketInput(
                  InitialAmount(required_capital, PresentValue(ls[k]), total),
                  ls[k], strategy, asm, per_bucket))]]

GenerateRequiredBuckets(cb, total, ls, ts, strategy, asm) ==
    IF Len(ls) = 0 THEN [error |-> NoError, buckets |-> <<>>]
    ELSE Only({ RequiredBucketsWith(Min(cb, total), total, ls, strategy, asm, per_bucket)
                  : per_bucket \in {Series([ts EXCEPT !.values =
                        [i \in DOMAIN ts.values |-> ts.values[i] \div Len(ls)]])} })

\* BaseBucket.get_surplus_series of every bucket, pd.concat(axis=1),
\* fillna(0), sum(axis=1) (lines 156-159): the months of any bucket, and for
\* each the surplus summed over the buckets that have a row for it.
SurplusSeries_FirstBucketOnly(buckets) ==
    LET months == UNION {{b.date[i] : i \in DOMAIN b.date} : b \in {buckets[k] : k \in DOMAIN buckets}}
        index  == [i \in 1..Cardinality(months) |->
                      CHOOSE m \in months : Cardinality({x \in months : x < m}) = i - 1]
        At(b, m) == IF \E i \in DOMAIN b.date : b.date[i] = m
                    THEN b.surplus[CHOOSE i \in DOMAIN b.date : b.date[i] = m]
                    ELSE 0
    IN  [index |-> index,
         values |-> [i \in DOMAIN index |-> At(buckets[1], index[i])]]

SurplusSeries(buckets) ==
    LET months == UNION {{b.date[i] : i \in DOMAIN b.date} : b \in {buckets[k] : k \in DOMAIN buckets}}
        index  == [i \in 1..Cardinality(months) |->
                      CHOOSE m \in months : Cardinality({x \in months : x < m}) = i - 1]
        At(b, m) == IF \E i \in DOMAIN b.date : b.date[i] = m
                    THEN b.surplus[CHOOSE i \in DOMAIN b.date : b.date[i] = m]
                    ELSE 0
    IN  [index |-> index,
         values |-> [i \in DOMAIN index |->
                        SumSeq([k \in DOMAIN buckets |-> At(buckets[k], index[i])])]]

\* _rebalance_surplus, line 151.
SurplusCapital_All(cb, total) == Max(0, cb)

SurplusCapital(cb, total) == Max(0, cb - total)

\* _rebalance_surplus (lines 149-169).
SurplusBucketWith(cb, total, tdy, end, asm, c) ==
    IF NormalizeFails(Timeline(tdy, end), c)
    THEN [error |-> "ValueError", bucket |-> NoFrame]
    ELSE [error |-> NoError,
          bucket |-> BuildFrame(SurplusBucketInput(SurplusCapital(cb, total), tdy, end, asm, c))]

RebalanceSurplus(cb, total, buckets, tdy, end, asm) ==
    Only({ SurplusBucketWith(cb, total, tdy, end, asm, c)
             : c \in {IF Len(buckets) = 0 THEN Scalar(0) ELSE Series(SurplusSeries(buckets))} })

Last(s) == s[Len(s)]

\* _calculate_funded_status, lines 176-179.
FundedStatusOf_SurplusOnly(surplus, shortfall) == surplus

FundedStatusOf(surplus, shortfall) == IF surplus > 0 THEN surplus ELSE 0 - shortfall

\* _calculate_funded_status (lines 171-179); .iloc[-1] of an empty frame raises.
CalculateFundedStatus(buckets, sb) ==
    IF Len(sb.asset_balance) = 0 THEN [error |-> "IndexError", funded_status |-> 0]
    ELSE [error |-> NoError,
          funded_status |->
              FundedStatusOf(Last(sb.asset_balance),
                             SumSeq([k \in DOMAIN buckets |-> Last(buckets[k].shortfall)]))]

\* _calculate_current_asset_allocations (lines 181-209): the numerators and
\* the denominator of the blended month-0 weights, by asset class.
BucketAllocation(b, strategy) ==
    LET s == IF b.kind = "surplus" THEN "EquityOnly" ELSE strategy
    IN  [equity |-> EquityAllocation(s, b.horizon[1]),
         fixed_income |-> FixedIncomeAllocation(s, b.horizon[1])]

CalculateCurrentAssetAllocations(cb, buckets, sb, strategy) ==
    LET all == IF cb = 0 THEN buckets ELSE Append(buckets, sb)
        W(b) == IF cb = 0 THEN b.pv_remaining[1] ELSE b.asset_balance[1]
    IN  [equity       |-> SumSeq([k \in DOMAIN all |-> BucketAllocation(all[k], strategy).equity * W(all[k])]),
         fixed_income |-> SumSeq([k \in DOMAIN all |-> BucketAllocation(all[k], strategy).fixed_income * W(all[k])]),
         denominator  |-> SumSeq([k \in DOMAIN all |-> W(all[k])])]

\* ------------------------------------------- one construction of LDIModel
\* The month in which the run executes.
MaxToday == 1

\* Assumption files: complete ones, and ones that omit a key.
FullAssumptions ==
    { [has_inflation_cpi |-> TRUE, has_discount_rate |-> TRUE, has_assets |-> TRUE,
       inflation_cpi |-> RateDen + a[1], discount_rate |-> RateDen + a[2],
       equity |-> RateDen + a[3], fixed_income |-> RateDen + a[4]]
        : a \in {<<0, 0, 0, 0>>, <<0, 2, 5, 1>>, <<2, 0, 5, 2>>} }

BaseAssumptions ==
    [has_inflation_cpi |-> TRUE, has_discount_rate |-> TRUE, has_assets |-> TRUE,
     inflation_cpi |-> RateDen, discount_rate |-> RateDen, equity |-> RateDen,
     fixed_income |-> RateDen]

PartialAssumptions ==
    { [BaseAssumptions EXCEPT !.has_inflation_cpi = FALSE],
      [BaseAssumptions EXCEPT !.has_discount_rate = FALSE],
      [BaseAssumptions EXCEPT !.has_assets = FALSE] }

Recurring(m, amount, years) ==
    [type |-> "recurring", start_date |-> Date(m, 15), amount_today |-> amount,
     has_duration_years |-> TRUE, duration_years |-> years, has_window |-> FALSE, window |-> 1]

OneTime(m, amount) ==
    [type |-> "one_time", start_date |-> Date(m, 15), amount_today |-> amount,
     has_duration_years |-> FALSE, duration_years |-> 1, has_window |-> FALSE, window |-> 1]

LiabilityLists ==
    { <<>>,
      <<Recurring(1, 3000, 1)>>, <<Recurring(3, 3000, 1)>>,
      <<Recurring(1, 3000, 2)>>, <<Recurring(3, 3000, 2)>>,
      <<OneTime(1, 1000)>>, <<OneTime(3, 1000)>>,
      <<Recurring(3, 3000, 1), OneTime(1, 1000)>>,
      <<OneTime(3, 1000), Recurring(1, 3000, 2)>> }

Contribution(type, frequency, amount) ==
    [type |-> type, frequency |-> frequency, amount |-> amount, month |-> 1,
     has_start_date |-> FALSE, start_date |-> Date(0, 1),
     has_end_date |-> FALSE, end_date |-> Date(0, 1), date |-> Date(0, 1)]

ContributionLists ==
    { <<>>,
      <<Contribution("recurring", "monthly", 100)>>,
      <<Contribution("recurring", "monthly", 0 - 200)>>,
      <<[Contribution("recurring", "monthly", 300) EXCEPT
            !.has_start_date = TRUE, !.start_date = Date(2, 10),
            !.has_end_date = TRUE, !.end_date = Date(3, 20)]>>,
      <<Contribution("recurring", "annual", 500)>>,
      <<Contribution("recurring", "weekly", 100)>>,
      <<[Contribution("one_time", "", 400) EXCEPT !.date = Date(2, 1)]>>,
      <<[Contribution("one_time", "", 400) EXCEPT !.date = Date(2, 15)]>>,
      <<[Contribution("one_time", "", 400) EXCEPT !.date = Date(40, 1)]>>,
      <<Contribution("bonus", "", 100)>> }

AssetsToday == {0, 2000, 9000}

EndDates == {Date(3, 1)}

\* Scenario files: any of the keys assets_today, liabilities, end_date may be
\* absent (the value of an absent key is never read).
Scenarios ==
    { [has_assets_today |-> ha, assets_today |-> a,
       has_liabilities |-> hl, liabilities |-> l,
       has_end_date |-> he, end_date |-> e, contributions |-> c]
        : ha \in BOOLEAN, a \in AssetsToday, hl \in BOOLEAN, l \in LiabilityLists,
          he \in BOOLEAN, e \in EndDates, c \in ContributionLists }

\* One scenario per way of writing it: absent keys carry a fixed value.
CanonicalScenarios ==
    { s \in Scenarios :
        /\ (~s.has_assets_today => s.assets_today = 0)
        /\ (~s.has_liabilities => s.liabilities = <<>>)
        /\ (~s.has_end_date => s.end_date = Date(3, 1)) }

BaseScenario ==
    [has_assets_today |-> TRUE, assets_today |-> 2000,
     has_liabilities |-> TRUE, liabilities |-> <<Recurring(3, 3000, 1)>>,
     has_end_date |-> FALSE, end_date |-> Date(3, 1), contributions |-> <<>>]

Strategies == {"GlidePath", "EquityOnly"}

NoAllocations == [equity |-> 0, fixed_income |-> 0, denominator |-> 0]

Init ==
    /\ today \in 0..MaxToday
    /\ \/ assumptions \in FullAssumptions /\ scenario \in CanonicalScenarios
       \/ assumptions \in PartialAssumptions /\ scenario = BaseScenario
    /\ allocation_strategy \in Strategies
    /\ pc = "from_dict"
    /\ current_balance = 0
    /\ liabilities_config = <<>>
    /\ contributions_config = <<>>
    /\ end_date = <<>>
    /\ liabilities = <<>>
    /\ present_value = 0
    /\ contributions = NoSeries
    /\ required_buckets = <<>>
    /\ surplus_bucket = NoFrame
    /\ funded_status = 0
    /\ current_allocations = NoAllocations
    /\ error = NotRaised
    /\ BucketIdle /\ SolverIdle /\ AllocIdle /\ RunsIdle

\* An exception leaves __init__: no model is constructed.
Raise(kind, method) == pc' = "failed" /\ error' = [kind |-> kind, in |-> method]

\* Assumptions.from_dict: data["inflation_cpi"], data["discount_rate"] and
\* data["assets"] are read without a check.
AssumptionsFromDict ==
    /\ pc = "from_dict"
    /\ IF AssumptionsMissingKey(assumptions) THEN Raise("KeyError", "from_dict")
       ELSE pc' = "init" /\ error' = error
    /\ UNCHANGED <<today, scenario, assumptions, current_balance, liabilities_config, contributions_config, end_date, liabilities, present_value, contributions, required_buckets, surplus_bucket, funded_status, current_allocations, allocation_strategy>>
    /\ UNCHANGED <<bucketVars, solverVars, allocVars, runVars>>

\* LDIModel.__init__ (lines 13-29) up to the call of _run: every key is read
\* with scenario.get, and _validate_parameters is not called.
LDIModelInit ==
    /\ pc = "init"
    /\ current_balance' = IF scenario.has_assets_today THEN scenario.assets_today ELSE 0
    /\ liabilities_config' = IF scenario.has_liabilities THEN scenario.liabilities ELSE <<>>
    /\ contributions_config' = scenario.contributions
    /\ end_date' = IF scenario.has_end_date THEN <<scenario.end_date>> ELSE <<>>
    /\ pc' = "generate_liabilities"
    /\ UNCHANGED <<today, scenario, assumptions, liabilities, present_value, contributions, required_buckets, surplus_bucket, funded_status, current_allocations, allocation_strategy, error>>
    /\ UNCHANGED <<bucketVars, solverVars, allocVars, runVars>>

RunGenerateLiabilities ==
    /\ pc = "generate_liabilities"
    /\ LET r == GenerateLiabilities(liabilities_config, today, assumptions)
       IN  /\ liabilities' = r.liabilities
           /\ present_value' = r.present_value
           /\ IF r.error # NoError THEN Raise(r.error, "_generate_liabilities")
              ELSE pc' = "calculate_end_date" /\ error' = error
    /\ UNCHANGED <<today, scenario, assumptions, current_balance, liabilities_config, contributions_config, end_date, contributions, required_buckets, surplus_bucket, funded_status, current_allocations, allocation_strategy>>
    /\ UNCHANGED <<bucketVars, solverVars, allocVars, runVars>>

RunCalculateEndDate ==
    /\ pc = "calculate_end_date"
    /\ end_date' = CalculateEndDate(end_date, liabilities)
    /\ pc' = "generate_contributions"
    /\ UNCHANGED <<today, scenario, assumptions, current_balance, liabilities_config, contributions_config, liabilities, present_value, contributions, required_buckets, surplus_bucket, funded_status, current_allocations, allocation_strategy, error>>
    /\ UNCHANGED <<bucketVars, solverVars, allocVars, runVars>>

RunGenerateContributions ==
    /\ pc = "generate_contributions"
    /\ LET r == GenerateContributions(today, end_date, contributions_config)
       IN  IF r.error # NoError
           THEN Raise(r.error, "_generate_contributions") /\ contributions' = contributions
           ELSE pc' = "generate_required_buckets" /\ error' = error /\ contributions' = r.ts
    /\ UNCHANGED <<today, scenario, assumptions, current_balance, liabilities_config, contributions_config, end_date, liabilities, present_value, required_buckets, surplus_bucket, funded_status, current_allocations, allocation_strategy>>
    /\ UNCHANGED <<bucketVars, solverVars, allocVars, runVars>>

RunGenerateRequiredBuckets ==
    /\ pc = "generate_required_buckets"
    /\ LET r == GenerateRequiredBuckets(current_balance, present_value, liabilities,
                                        contributions, allocation_strategy, assumptions)
       IN  IF r.error # NoError
           THEN Raise(r.error, "_generate_required_buckets") /\ required_buckets' = required_buckets
           ELSE pc' = "rebalance_surplus" /\ error' = error /\ required_buckets' = r.buckets
    /\ UNCHANGED <<today, scenario, assumptions, current_balance, liabilities_config, contributions_config, end_date, liabilities, present_value, contributions, surplus_bucket, funded_status, current_allocations, allocation_strategy>>
    /\ UNCHANGED <<bucketVars, solverVars, allocVars, runVars>>

RunRebalanceSurplus ==
    /\ pc = "rebalance_surplus"
    /\ LET r == RebalanceSurplus(current_balance, present_value, required_buckets,
                                 today, end_date[1], assumptions)
       IN  IF r.error # NoError
           THEN Raise(r.error, "_rebalance_surplus") /\ surplus_bucket' = surplus_bucket
           ELSE pc' = "calculate_funded_status" /\ error' = error /\ surplus_bucket' = r.bucket
    /\ UNCHANGED <<today, scenario, assumptions, current_balance, liabilities_config, contributions_config, end_date, liabilities, present_value, contributions, required_buckets, funded_status, current_allocations, allocation_strategy>>
    /\ UNCHANGED <<bucketVars, solverVars, allocVars, runVars>>

RunCalculateFundedStatus ==
    /\ pc = "calculate_funded_status"
    /\ LET r == CalculateFundedStatus(required_buckets, surplus_bucket)
       IN  IF r.error # NoError
           THEN Raise(r.error, "_calculate_funded_status") /\ funded_status' = funded_status
           ELSE pc' = "calculate_current_asset_allocations" /\ error' = error
                /\ funded_status' = r.funded_status
    /\ UNCHANGED <<today, scenario, assumptions, current_balance, liabilities_config, contributions_config, end_date, liabilities, present_value, contributions, required_buckets, surplus_bucket, current_allocations, allocation_strategy>>
    /\ UNCHANGED <<bucketVars, solverVars, allocVars, runVars>>

RunCalculateCurrentAssetAllocations ==
    /\ pc = "calculate_current_asset_allocations"
    /\ current_allocations' = CalculateCurrentAssetAllocations(current_balance, required_buckets, surplus_bucket, allocation_strategy)
    /\ pc' = "done"
    /\ UNCHANGED <<today, scenario, assumptions, current_balance, liabilities_config, contributions_config, end_date, liabilities, present_value, contributions, required_buckets, surplus_bucket, funded_status, allocation_strategy, error>>
    /\ UNCHANGED <<bucketVars, solverVars, allocVars, runVars>>

Next ==
    \/ AssumptionsFromDict
    \/ LDIModelInit
    \/ RunGenerateLiabilities
    \/ RunCalculateEndDate
    \/ RunGenerateContributions
    \/ RunGenerateRequiredBuckets
    \/ RunRebalanceSurplus
    \/ RunCalculateFundedStatus
    \/ RunCalculateCurrentAssetAllocations

Spec == Init /\ [][Next]_vars

\* ------------------------------------------------------ runner.py: solvers
\* LDIModel(assumptions, scenario).result()["surplus_at_maturity"]: the whole
\* of __init__ and _run, as one function of its inputs.
Failed(kind) == [error |-> kind, surplus_at_maturity |-> 0]

\* _run from _calculate_funded_status on.
RunFromSurplusBucket(rb, sb) ==
    IF sb.error # NoError THEN Failed(sb.error)
    ELSE Only({ [error |-> fs.error, surplus_at_maturity |-> fs.funded_status]
                  : fs \in {CalculateFundedStatus(rb.buckets, sb.bucket)} })

\* _run from _rebalance_surplus on.
RunFromRequiredBuckets(tdy, asm, cb, gl, end, rb) ==
    IF rb.error # NoError THEN Failed(rb.error)
    ELSE Only({ RunFromSurplusBucket(rb, sb)
                  : sb \in {RebalanceSurplus(cb, gl.present_value, rb.buckets, tdy, end[1], asm)} })

\* _run from _generate_required_buckets on.
RunFromContributions(tdy, asm, strategy, cb, gl, end, gc) ==
    IF gc.error # NoError THEN Failed(gc.error)
    ELSE Only({ RunFromRequiredBuckets(tdy, asm, cb, gl, end, rb)
                  : rb \in {GenerateRequiredBuckets(cb, gl.present_value, gl.liabilities,
                                                    gc.ts, strategy, asm)} })

\* _run from _generate_contributions on.
RunFromEndDate(tdy, asm, scn, strategy, cb, gl, end) ==
    Only({ RunFromContributions(tdy, asm, strategy, cb, gl, end, gc)
             : gc \in {GenerateContributions(tdy, end, scn.contributions)} })

\* _run from _calculate_end_date on.
RunFromLiabilities(tdy, asm, scn, strategy, cb, gl) ==
    IF gl.error # NoError THEN Failed(gl.error)
    ELSE Only({ RunFromEndDate(tdy, asm, scn, strategy, cb, gl, end)
                  : end \in {CalculateEndDate(IF scn.has_end_date THEN <<scn.end_date>> ELSE <<>>,
                                              gl.liabilities)} })

RunModel(tdy, asm, scn, strategy) ==
    Only({ RunFromLiabilities(tdy, asm, scn, strategy,
                              IF scn.has_assets_today THEN scn.assets_today ELSE 0, gl)
             : gl \in {GenerateLiabilities(IF scn.has_liabilities THEN scn.liabilities ELSE <<>>,
                                           tdy, asm)} })

MAX_ITERATIONS == 20

TOLERANCE == 1000

\* liability_config.get("window", 1), runner.py line 90, and
\* liability_config.get("duration_years", 1), line 139.
Window(solver_kind, c) ==
    IF solver_kind = "balance" THEN (IF c.has_window THEN c.window ELSE 1)
    ELSE (IF c.has_duration_years THEN c.duration_years ELSE 1)

\* 12 * horizon: the months from the first cash flow to start + window years
\* (lines 94-100 and 143-149).
HorizonMonths(solver_kind, c, tdy) ==
    c.start_date.m + MonthsPerYear * Window(solver_kind, c) - (tdy + 1)

\* len(liabilities) * amount_today * window * (1 + inflation) ** horizon
\* (lines 102 and 151, before the division).
Bracket(solver_kind, scn, asm, tdy) ==
    LET c == scn.liabilities[1]
    IN  Compound(Len(scn.liabilities) * c.amount_today * Window(solver_kind, c),
                 asm.inflation_cpi, HorizonMonths(solver_kind, c, tdy))

\* The statements before the loop (lines 82-103 and 126-152): the bracket,
\* or the exception that scenario["liabilities"][0] or the division raises.
SolverStart(solver_kind, scn, asm, tdy) ==
    IF ~scn.has_liabilities THEN [error |-> "KeyError", upper |-> 0]
    ELSE IF Len(scn.liabilities) = 0 THEN [error |-> "IndexError", upper |-> 0]
    ELSE IF solver_kind = "balance"
    THEN [error |-> NoError, upper |-> Bracket(solver_kind, scn, asm, tdy)]
    ELSE IF HorizonMonths(solver_kind, scn.liabilities[1], tdy) = 0
    THEN [error |-> "ZeroDivisionError", upper |-> 0]
    ELSE [error |-> NoError,
          upper |-> (Bracket(solver_kind, scn, asm, tdy) * MonthsPerYear)
                        \div HorizonMonths(solver_kind, scn.liabilities[1], tdy)]

\* The scenario of the model run of one iteration (lines 108 and 157): the
\* copy with assets_today, or with deposit.monthly, set to middle.  LDIModel
\* reads assets_today, liabilities, contributions and end_date; it does not
\* read deposit.
ScenarioCopy(solver_kind, scn, mid) ==
    IF solver_kind = "balance"
    THEN [scn EXCEPT !.has_assets_today = TRUE, !.assets_today = mid]
    ELSE scn

\* The test that ends the loop early: neither "<= 0" nor "> TOLERANCE"
\* (lines 115-120 and 164-169).
Converged_Abs(s) == Abs(s) <= TOLERANCE

Converged(s) == ~(s <= 0) /\ ~(s > TOLERANCE)

\* ------------------------------------------------------ one call of a solver
SolverLiabilityLists ==
    { <<>>,
      <<Recurring(3, 3000, 1)>>, <<Recurring(3, 3000, 2)>>, <<OneTime(3, 1000)>>,
      <<[Recurring(3, 3000, 2) EXCEPT !.has_window = TRUE, !.window = 2]>>,
      <<Recurring(3, 3000, 1), OneTime(1, 1000)>> }

SolverContributionLists == { <<>>, <<Contribution("recurring", "monthly", 100)>> }

SolverScenarios ==
    { [has_assets_today |-> TRUE, assets_today |-> a,
       has_liabilities |-> TRUE, liabilities |-> l,
       has_end_date |-> FALSE, end_date |-> Date(3, 1), contributions |-> c]
        : a \in AssetsToday, l \in SolverLiabilityLists, c \in SolverContributionLists }

InitSolver ==
    /\ solver \in {"balance", "monthly"}
    /\ today \in 0..MaxToday
    /\ assumptions \in FullAssumptions
    /\ scenario \in SolverScenarios
    /\ allocation_strategy \in Strategies
    /\ spc = "start"
    /\ idx = 0 /\ lower = 0 /\ upper = 0 /\ middle = 0
    /\ surplus_at_maturity = 0 /\ returned = 0 /\ rerun = 0
    /\ error = NotRaised
    /\ pc = None /\ current_balance = None /\ liabilities_config = None
    /\ contributions_config = None /\ end_date = None /\ liabilities = None
    /\ present_value = None /\ contributions = None /\ required_buckets = None
    /\ surplus_bucket = None /\ funded_status = None /\ current_allocations = None
    /\ BucketIdle /\ AllocIdle /\ RunsIdle

SolverFrame ==
    UNCHANGED <<solver, today, assumptions, scenario, allocation_strategy, pc, current_balance, liabilities_config, contributions_config, end_date, liabilities, present_value, contributions, required_buckets, surplus_bucket, funded_status, current_allocations, bucketVars, allocVars, runVars>>

\* The statements before the loop.
Start(kind) ==
    /\ solver = kind
    /\ spc = "start"
    /\ LET r == SolverStart(kind, scenario, assumptions, today)
       IN  IF r.error # NoError
           THEN /\ spc' = "raised" /\ error' = [kind |-> r.error, in |-> "solver"]
                /\ UNCHANGED <<lower, upper>>
           ELSE /\ spc' = "loop" /\ error' = error
                /\ lower' = 0 /\ upper' = r.upper
    /\ UNCHANGED <<idx, middle, surplus_at_maturity, returned, rerun>>
    /\ SolverFrame

\* One iteration of "for idx in range(MAX_ITERATIONS)": a whole model run,
\* then the narrowing of the bracket or the break.
Iterate(kind) ==
    /\ solver = kind
    /\ spc = "loop"
    /\ idx < MAX_ITERATIONS
    /\ \E mid \in {(lower + upper) \div 2} :
       \E run \in {RunModel(today, assumptions, ScenarioCopy(kind, scenario, mid),
                            allocation_strategy)} :
       LET s == run.surplus_at_maturity
       IN  IF run.error # NoError
           THEN /\ spc' = "raised" /\ error' = [kind |-> run.error, in |-> "LDIModel"]
                /\ middle' = mid
                /\ UNCHANGED <<idx, lower, upper, surplus_at_maturity>>
           ELSE /\ middle' = mid
                /\ surplus_at_maturity' = s
                /\ idx' = idx + 1
                /\ error' = error
                /\ lower' = IF s <= 0 THEN mid ELSE lower
                /\ upper' = IF ~(s <= 0) /\ s > TOLERANCE THEN mid ELSE upper
                /\ spc' = IF Converged(s) \/ idx + 1 = MAX_ITERATIONS THEN "exit" ELSE "loop"
    /\ UNCHANGED <<returned, rerun>>
    /\ SolverFrame

\* The return statement (lines 122 and 171); an absent deposit was set to
\* {"monthly": 0} at line 130.
Return(kind) ==
    /\ solver = kind
    /\ spc = "exit"
    /\ IF kind = "balance" /\ ~scenario.has_assets_today
       THEN /\ spc' = "raised" /\ error' = [kind |-> "KeyError", in |-> "solver"]
            /\ returned' = returned
       ELSE /\ spc' = "returned" /\ error' = error
            /\ returned' = IF kind = "balance" THEN middle - scenario.assets_today ELSE middle
    /\ UNCHANGED <<idx, lower, upper, middle, surplus_at_maturity, rerun>>
    /\ SolverFrame

\* The scenario of the run that checks a solver's answer: the solved amount
\* added to assets_today with no contributions, or the solved amount as one
\* more recurring monthly contribution up to the month before the first
\* liability starts.
RerunScenario(kind, scn, amount) ==
    IF kind = "balance"
    THEN [scn EXCEPT !.assets_today = @ + amount, !.contributions = <<>>]
    ELSE [scn EXCEPT !.contributions =
             Append(@, [Contribution("recurring", "monthly", amount) EXCEPT
                           !.has_end_date = TRUE,
                           !.end_date = MonthStart(scn.liabilities[1].start_date.m - 1)])]

\* A fresh model run on the solved amount.
Rerun(kind) ==
    /\ solver = kind
    /\ spc = "returned"
    /\ \E run \in {RunModel(today, assumptions, RerunScenario(kind, scenario, returned),
                            allocation_strategy)} :
           IF run.error # NoError
           THEN /\ spc' = "raised" /\ error' = [kind |-> run.error, in |-> "LDIModel"]
                /\ rerun' = rerun
           ELSE /\ spc' = "rerun" /\ error' = error
                /\ rerun' = run.surplus_at_maturity
    /\ UNCHANGED <<idx, lower, upper, middle, surplus_at_maturity, returned>>
    /\ SolverFrame

BalanceStart == Start("balance")

BalanceIterate == Iterate("balance")

BalanceReturn == Return("balance")

BalanceRerun == Rerun("balance")

MonthlyStart == Start("monthly")

MonthlyIterate == Iterate("monthly")

MonthlyReturn == Return("monthly")

MonthlyRerun == Rerun("monthly")

NextSolver ==
    \/ BalanceStart \/ BalanceIterate \/ BalanceReturn \/ BalanceRerun
    \/ MonthlyStart \/ MonthlyIterate \/ MonthlyReturn \/ MonthlyRerun

SpecSolver == InitSolver /\ [][NextSolver]_vars

\* ------------------------------------------- two model runs on the same inputs
\* Scenarios that hold assets_today and one of liabilities and end_date.
RunScenarios ==
    { s \in CanonicalScenarios :
        /\ s.has_assets_today
        /\ (s.has_liabilities \/ s.has_end_date)
        /\ s.contributions \in SolverContributionLists }

InitRuns ==
    /\ assumptions \in FullAssumptions
    /\ scenario \in RunScenarios
    /\ allocation_strategy \in Strategies
    /\ runs = <<>>
    /\ pc = None /\ today = None /\ current_balance = None /\ liabilities_config = None
    /\ contributions_config = None /\ end_date = None /\ liabilities = None
    /\ present_value = None /\ contributions = None /\ required_buckets = None
    /\ surplus_bucket = None /\ funded_status = None /\ current_allocations = None
    /\ error = None
    /\ BucketIdle /\ SolverIdle /\ AllocIdle

\* LDIModel(assumptions, scenario).result(), executed in some month:
\* __init__ takes valuation_date from pd.Timestamp.today() (model.py line 23),
\* not from its arguments.
ModelRun ==
    /\ Len(runs) < 2
    /\ \E executed \in 0..MaxToday :
       \E result \in {RunModel(executed, assumptions, scenario, allocation_strategy)} :
           runs' = Append(runs, [executed |-> executed, result |-> result])
    /\ UNCHANGED <<bucketVars, modelVars, solverVars, allocVars>>

NextRuns == ModelRun

SpecRuns == InitRuns /\ [][NextRuns]_vars

\* ------------------------------------------------------------ claims C1, C3
\* C1: in a RequiredBucket every recorded asset_balance, of the rows recorded
\* so far by the loop and of the finished frame, is at most that row's
\* pv_remaining, whatever the initial amount and the contribution series.
C1_RequiredBucketCeiling ==
    bucket.kind = "required" =>
        /\ \A i \in 1..Len(loop.balances) : loop.balances[i] <= bucket.pv_remaining[i]
        /\ frame.built =>
              \A i \in 1..Len(frame.asset_balance) :
                  frame.asset_balance[i] <= frame.pv_remaining[i]

\* A finished required bucket of full length in which the peel acted: a row
\* that was over-funded and is recorded exactly at its ceiling.
C1_Witness ==
    /\ frame.built
    /\ frame.kind = "required"
    /\ Len(frame.asset_balance) = MaxLen
    /\ \E i \in 2..MaxLen :
          frame.surplus[i] > 0 /\ frame.asset_balance[i] = frame.pv_remaining[i]

\* C3 as the spec states it: the surplus of row t is taken off the recorded
\* balance of row t once more, and the surplus of row t+1 is not counted:
\* asset_balance[t+1] = (asset_balance[t] - surplus[t]) * (1 + r[t]) + c[t].
C3_RecurrenceAsClaimed ==
    frame.built =>
        \A i \in 1..(Len(frame.asset_balance) - 1) :
            frame.asset_balance[i + 1] =
                Grow(frame.asset_balance[i] - frame.surplus[i], frame.expected_return[i])
                    + frame.contributions_ts[i]

\* C3 amended: the recorded balance of row t is already net of surplus[t], and
\* row t+1 records what is left after its own peel:
\* asset_balance[t+1] + surplus[t+1] = asset_balance[t] * (1 + r[t]) + c[t].
C3_Recurrence ==
    frame.built =>
        \A i \in 1..(Len(frame.asset_balance) - 1) :
            frame.asset_balance[i + 1] + frame.surplus[i + 1] =
                Grow(frame.asset_balance[i], frame.expected_return[i])
                    + frame.contributions_ts[i]

\* A finished frame with a growing month, a contribution and a peel in
\* consecutive rows.
C3_Witness ==
    /\ frame.built
    /\ \E i \in 1..(Len(frame.asset_balance) - 1) :
          /\ frame.surplus[i] > 0
          /\ frame.surplus[i + 1] > 0
          /\ frame.expected_return[i] > RateDen
          /\ frame.contributions_ts[i] # 0

\* ----------------------------------------------------------------- claim C8
RECURSIVE SumWeights(_, _)
SumWeights(w, names) ==
    IF names = {} THEN 0
    ELSE LET a == CHOOSE x \in names : TRUE IN w[a] + SumWeights(w, names \ {a})

\* C8: for every horizon (a number of months or +infinity) and every funding
\* ratio (a number or none), every weight GlidePath.get_allocation returns is
\* >= 0 and the weights sum to 1.
C8_AllocationSum ==
    allocation.called =>
        /\ \A a \in Assets : allocation.weights[a] >= 0
        /\ SumWeights(allocation.weights, Assets) = AllocDen

\* An allocation was returned for an over-funded bucket inside the glide:
\* both clamps act and all four weights are decided by them.
C8_Witness ==
    /\ allocation.called
    /\ ~inputs.horizon_months.inf
    /\ inputs.horizon_months.months = MaxHorizon
    /\ inputs.funding_ratio.kind = "num"
    /\ inputs.funding_ratio.pct > 100
    /\ allocation.weights["us_nominal_treasury_long"] > 0

\* ------------------------------------------------------- claims C2, C4
\* The surplus bucket has been built: both kinds of bucket hold their frames.
BucketsBuilt ==
    pc \in {"calculate_funded_status", "calculate_current_asset_allocations", "done"}

\* Amounts are rounded down to a whole unit, once per required bucket; the
\* last bucket's rounding is the only one the others do not already bound.
ConservationTolerance(n) == Max(0, n - 1)

\* C2: once the buckets are built, the first-row asset_balance of the required
\* buckets plus that of the surplus bucket equals current_balance, to within
\* the rounding of the split across the buckets.
C2_CapitalConservation ==
    BucketsBuilt =>
        LET total == SumSeq([k \in DOMAIN required_buckets |-> required_buckets[k].asset_balance[1]])
                         + surplus_bucket.asset_balance[1]
        IN  /\ total <= current_balance
            /\ current_balance - total <= ConservationTolerance(Len(required_buckets))

\* A constructed model with two required buckets and capital left over for
\* the surplus bucket.
C2_Witness ==
    /\ pc = "done"
    /\ Len(required_buckets) = 2
    /\ current_balance > present_value
    /\ surplus_bucket.asset_balance[1] > 0
    /\ required_buckets[1].asset_balance[1] > 0

\* C4: the funded status of a completed run is the surplus bucket's last-row
\* asset_balance S when S > 0, and otherwise minus the sum of the last-row
\* shortfalls of the required buckets (never positive).
C4_FundedStatus ==
    pc \in {"calculate_current_asset_allocations", "done"} =>
        LET S == Last(surplus_bucket.asset_balance)
            shortfall == SumSeq([k \in DOMAIN required_buckets |->
                                    Max(0, Last(required_buckets[k].pv_remaining)
                                           - Last(required_buckets[k].asset_balance))])
        IN  /\ S > 0 => funded_status = S
            /\ S <= 0 => funded_status = 0 - shortfall /\ funded_status <= 0

\* A completed run that ends under-funded in two required buckets.
C4_Witness ==
    /\ pc = "done"
    /\ Len(required_buckets) = 2
    /\ Last(surplus_bucket.asset_balance) = 0
    /\ funded_status < 0
    /\ \A k \in 1..2 : Last(required_buckets[k].shortfall) > 0

\* ------------------------------------------------------------- claim C9
\* The scenario or the assumptions omit a required key.
OmitsRequiredKey ==
    \/ ~scenario.has_assets_today
    \/ (~scenario.has_liabilities /\ ~scenario.has_end_date)
    \/ AssumptionsMissingKey(assumptions)

\* C9: a config that omits a required key is rejected: the construction
\* raises (whatever the exception) and no model is produced.
C9_MissingKeyRejected == OmitsRequiredKey => pc # "done"

\* ------------------------------------------------------------ claim C10
\* _generate_contributions has run, and has returned or raised.
ContributionsGenerated ==
    \/ pc \in {"generate_required_buckets", "rebalance_surplus", "calculate_funded_status",
               "calculate_current_asset_allocations", "done"}
    \/ (pc = "failed" /\ error.in = "_generate_contributions")

\* C10: a one_time contribution is added to the month containing its date,
\* and the construction fails exactly when that month is outside the timeline
\* [valuation_date + 1 month, end_date].
C10_OneTimeByMonth ==
    (/\ ContributionsGenerated
     /\ end_date # <<>>
     /\ Len(contributions_config) = 1
     /\ contributions_config[1].type = "one_time") =>
        LET c == contributions_config[1]
            inside == c.date.m \in (today + 1)..(end_date[1].m)
        IN  /\ (pc = "failed" /\ error.in = "_generate_contributions") <=> ~inside
            /\ pc # "failed" =>
                   \A i \in DOMAIN contributions.index :
                       contributions.values[i] = IF contributions.index[i] = c.date.m
                                                 THEN c.amount ELSE 0

\* ------------------------------------------------------- claims C5, C6, C7
\* C5: the model re-run with assets_today plus the amount the lump-sum solver
\* returned, and with no contributions, ends with |funded_status| within the
\* solver's tolerance.
C5_LumpSumIdempotence ==
    (solver = "balance" /\ spc = "rerun") => Abs(rerun) <= TOLERANCE

\* The scenario as it stands ends under-funded.
UnderFunded ==
    \E run \in {RunModel(today, assumptions, scenario, allocation_strategy)} :
        run.error = NoError /\ run.surplus_at_maturity < 0

\* C6: for an under-funded scenario, the model re-run with the amount the
\* monthly-contribution solver returned as a recurring monthly contribution
\* ends with |funded_status| within the solver's tolerance.
C6_MonthlyIdempotence ==
    (solver = "monthly" /\ spc = "rerun" /\ UnderFunded) => Abs(rerun) <= TOLERANCE

C7_StopRule ==
    /\ idx <= MAX_ITERATIONS
    /\ spc = "exit" =>
           \/ (0 < surplus_at_maturity /\ surplus_at_maturity <= TOLERANCE)
           \/ idx = MAX_ITERATIONS
    /\ (spc = "loop" /\ idx > 0) =>
           /\ idx < MAX_ITERATIONS
           /\ ~(0 < surplus_at_maturity /\ surplus_at_maturity <= TOLERANCE)
    /\ spc = "returned" =>
           returned = IF solver = "balance" THEN middle - scenario.assets_today ELSE middle
    /\ spc = "raised" =>
           \/ (error.in = "solver" /\ idx = 0)
           \/ (error.in = "LDIModel" /\ error.kind \in {"IndexError", "ValueError"})

\* Every step taken inside the loop is one more model run, or the exception
\* of a model run: the bounded counter idx is the loop's variant.
C7_Variant ==
    spc = "loop" => (idx' = idx + 1 \/ spc' = "raised")

C11_Determinism ==
    Len(runs) = 2 => runs[1].result = runs[2].result

\* ---------------------------------------------------------------- claim C12
\* C12: in a bucket of either kind that starts with an amount >= 0, every
\* recorded asset_balance (of the rows the loop has recorded and of the
\* finished frame) is >= 0, whatever the contributions and withdrawals.
C12_BalanceNonNegative ==
    bucket.amount >= 0 =>
        /\ \A i \in 1..Len(loop.balances) : loop.balances[i] >= 0
        /\ frame.built => \A i \in 1..Len(frame.asset_balance) : frame.asset_balance[i] >= 0

\* ---------------------------------------------------------------- claim C13
\* pv_remaining of a liability never falls, never rises, from row to row.
NonDecreasing(pv) == \A i \in 1..(Len(pv) - 1) : pv[i] <= pv[i + 1]

NonIncreasing(pv) == \A i \in 1..(Len(pv) - 1) : pv[i] >= pv[i + 1]

\* C13 as the spec states it: pv_remaining is non-decreasing towards maturity
\* when discount_rate > inflation and the same in every row otherwise, and
\* the maturity row holds amount.
C13_MonotonicityAsClaimed ==
    \A k \in DOMAIN liabilities :
        LET l == liabilities[k]
        IN  /\ assumptions.discount_rate > assumptions.inflation_cpi => NonDecreasing(l.pv_remaining)
            /\ ~(assumptions.discount_rate > assumptions.inflation_cpi) =>
                   \A i \in DOMAIN l.pv_remaining : l.pv_remaining[i] = l.amount
            /\ Len(l.pv_remaining) > 0 => Last(l.pv_remaining) = l.amount

\* C13 amended: pv_remaining is non-decreasing towards maturity when
\* discount_rate > inflation, the same in every row when the two are equal,
\* and non-increasing when discount_rate < inflation; the maturity row holds
\* amount.
C13_Monotonicity ==
    \A k \in DOMAIN liabilities :
        LET l == liabilities[k]
        IN  /\ assumptions.discount_rate > assumptions.inflation_cpi => NonDecreasing(l.pv_remaining)
            /\ assumptions.discount_rate = assumptions.inflation_cpi =>
                   \A i \in DOMAIN l.pv_remaining : l.pv_remaining[i] = l.amount
            /\ assumptions.discount_rate < assumptions.inflation_cpi => NonIncreasing(l.pv_remaining)
            /\ Len(l.pv_remaining) > 0 => Last(l.pv_remaining) = l.amount

\* A liability of more than a year of rows, discounted faster than it
\* inflates, whose pv_remaining rises to amount at maturity.
C13_Witness ==
    /\ assumptions.discount_rate > assumptions.inflation_cpi
    /\ \E k \in DOMAIN liabilities :
          /\ Len(liabilities[k].pv_remaining) > MonthsPerYear
          /\ liabilities[k].pv_remaining[1] < liabilities[k].pv_remaining[2]
          /\ Last(liabilities[k].pv_remaining) = liabilities[k].amount

\* ---------------------------------------------------------------- claim C14
\* C14: the current_allocations of a constructed model sum to 1: the summed
\* numerators are the whole of the denominator, and there is a denominator
\* to divide by (with none, the map is empty and sums to 0).
C14_AllocationsSumToOne ==
    pc = "done" =>
        /\ current_allocations.denominator # 0
        /\ current_allocations.equity + current_allocations.fixed_income
               = AllocDen * current_allocations.denominator

\* ---------------------------------------------------------------- claim C15
\* The surplus a bucket peeled in month m, 0 when it has no row for m.
PeeledIn(b, m) ==
    IF \E i \in DOMAIN b.date : b.date[i] = m
    THEN b.surplus[CHOOSE i \in DOMAIN b.date : b.date[i] = m]
    ELSE 0

\* The surplus all required buckets peeled in month m.
TotalPeeledIn(m) ==
    SumSeq([k \in DOMAIN required_buckets |-> PeeledIn(required_buckets[k], m)])

\* C15: in every month of its timeline the surplus bucket receives the sum of
\* what the required buckets peeled in that month; it never peels itself;
\* and it starts with max(0, current_balance - present value).
C15_SurplusStream ==
    BucketsBuilt =>
        /\ \A i \in DOMAIN surplus_bucket.date :
               /\ surplus_bucket.contributions_ts[i] = TotalPeeledIn(surplus_bucket.date[i])
               /\ surplus_bucket.surplus[i] = 0
        /\ Len(surplus_bucket.date) > 0 =>
               surplus_bucket.asset_balance[1] = Max(0, current_balance - present_value)

\* A constructed model in which two required buckets peel in the same month
\* and the surplus bucket starts with capital of its own.
C15_Witness ==
    /\ pc = "done"
    /\ Len(required_buckets) = 2
    /\ current_balance > present_value
    /\ \E i \in DOMAIN surplus_bucket.date :
          /\ PeeledIn(required_buckets[1], surplus_bucket.date[i]) > 0
          /\ PeeledIn(required_buckets[2], surplus_bucket.date[i]) > 0
          /\ surplus_bucket.contributions_ts[i] > 0

\* ---------------------------------------------------------------- claim C16
\* C16: what the required buckets peel in month d is credited to the surplus
\* bucket after its row for d is recorded and grown: row 1 holds the initial
\* capital alone, row d+1 holds row d grown by month d's return plus the peel
\* of month d, not grown; so the terminal asset_balance, and the funded
\* status it gives, hold no peel of the last month.
C16_PeelCreditedNextMonth ==
    BucketsBuilt =>
        LET sb == surplus_bucket
            n  == Len(sb.date)
        IN  /\ n > 0 => sb.asset_balance[1] = SurplusCapital(current_balance, present_value)
            /\ \A i \in 1..(n - 1) :
                   sb.asset_balance[i + 1] =
                       Grow(sb.asset_balance[i], sb.expected_return[i])
                           + TotalPeeledIn(sb.date[i])
            /\ (pc = "done" /\ sb.asset_balance[n] > 0) => funded_status = sb.asset_balance[n]

\* A constructed model whose required buckets peel in a month that earns a
\* return and again in the last month of the timeline, and whose funded
\* status is the surplus bucket's terminal balance.
C16_Witness ==
    /\ pc = "done"
    /\ funded_status > 0
    /\ Len(surplus_bucket.date) > 2
    /\ TotalPeeledIn(Last(surplus_bucket.date)) > 0
    /\ \E i \in 1..(Len(surplus_bucket.date) - 1) :
          /\ TotalPeeledIn(surplus_bucket.date[i]) > 0
          /\ surplus_bucket.expected_return[i] > RateDen

=============================================================================
